---- MODULE Spec2Model ----
(***************************************************************************)
(* Model of src/Rednote_downloader.py: the Flask backend of the RedNote    *)
(* video downloader.  The state is the process-wide task map _tasks, the   *)
(* download threads started by api_start_download, the files under         *)
(* DOWNLOAD_FOLDER, the resolver thread of a direct-mode request, and the  *)
(* request the client has in flight together with its response.            *)
(*                                                                         *)
(* Python values that may be None are sequences of length at most one:     *)
(* None is <<>> and a value v is <<v>>.  A dict key that is absent reads   *)
(* as None through dict.get, which is how the code reads every such key.   *)
(* A string that the code searches or splits is a sequence of segments.    *)
(***************************************************************************)
EXTENDS Integers, Sequences, FiniteSets, TLC

VARIABLES
    tasks,      \* _tasks: task id -> task dict, NoTask where the key is absent
    worker,     \* per task id: the thread running _download_background
    sawTotal,   \* per task id: _update_progress has taken its "if total:" branch
    disk,       \* the files under DOWNLOAD_FOLDER: path, writer, age of mtime
    req,        \* the request in flight, or answered and not yet followed by another
    resolver,   \* the thread _worker started by the request in flight (direct mode)
    abandoned   \* resolver threads still running after their request was answered

vars == <<tasks, worker, sawTotal, disk, req, resolver, abandoned>>

----------------------------------------------------------------------------
(* Bounds of the model                                                     *)

MaxTasks == 2
MaxAge == 3
MaxAbandoned == 1
MaxFormats == 2

----------------------------------------------------------------------------
(* Python values                                                           *)

None == <<>>
Some(v) == <<v>>
Val(o) == o[1]

\* bool(x) of an optional number: None and 0 are falsy
TruthyNum(o) == o # None /\ Val(o) # 0
\* bool(x) of an optional string (a sequence of segments): None and "" are falsy
TruthyStr(o) == o # None /\ Val(o) # <<>>
\* bool(x) of an optional flag
TruthyFlag(o) == o # None /\ Val(o) = TRUE

\* `a or b` on optional numbers
PyOr(a, b) == IF TruthyNum(a) THEN a ELSE b
\* `x or 0`
Or0(a) == IF TruthyNum(a) THEN Val(a) ELSE 0

Min2(a, b) == IF a <= b THEN a ELSE b
Max2(a, b) == IF a >= b THEN a ELSE b

\* `needle in url` for a url held as a sequence of segments
Contains(url, needle) == \E i \in 1..Len(url) : url[i] = needle

----------------------------------------------------------------------------
(* The task map                                                            *)

TaskIds == 1..MaxTasks
UnknownId == 0
NoTask == [status |-> "absent"]

DOWNLOAD_FOLDER == "downloads_v2"

\* line 120: the dict a submission stores; the keys 'filename', 'filepath',
\* 'title' and 'error' are absent, and 'created' is written here and never read
NewTask(url) ==
    [status |-> "queued", progress |-> 0, url |-> url,
     filename |-> None, filepath |-> None, title |-> None, error |-> None]

Issued == {id \in TaskIds : tasks[id] # NoTask}

\* a generator that may return an identifier again
uuid4_reused == TaskIds

\* line 119: uuid.uuid4() draws an identifier that no earlier call returned
uuid4 == TaskIds \ Issued

\* a template that leaves the task id out
out_template_no_id(task_id) == [dir |-> DOWNLOAD_FOLDER, id |-> None]

\* line 122: DOWNLOAD_FOLDER / f"{task_id}_%(title)s.%(ext)s"
out_template(task_id) == [dir |-> DOWNLOAD_FOLDER, id |-> Some(task_id)]

\* yt-dlp fills %(title)s with the title, or NA when the info has none
TitleField(info) == IF info.title = None THEN "NA" ELSE Val(info.title)

\* line 46: ydl.prepare_filename(info) under the task's outtmpl
prepare_filename(tmpl, info) ==
    [dir |-> tmpl.dir, id |-> tmpl.id, title |-> TitleField(info)]

\* line 51: os.path.basename
basename(path) == [id |-> path.id, title |-> path.title]

\* os.path.exists
exists(path) == \E f \in disk : f.path = path

\* the collaborator writes (or overwrites) the file at path
WriteFile(d, path, who) ==
    {f \in d : f.path # path} \cup {[path |-> path, owner |-> who, age |-> 0]}

----------------------------------------------------------------------------
(* _update_progress, lines 26-37                                           *)

\* The pairs <<downloaded, total>> with total at most 100 for which the
\* double-precision value of (downloaded / total) * 100 is below the whole
\* number it stands for, so that int() gives one less than the quotient of
\* the integers: 29 / 50 is 0.58 rounded down, and times 100 it is
\* 57.99999999999999.  For every other pair with total at most 100 the
\* doubles give the integer quotient.
RoundedBelow == {<<29, 50>>, <<29, 100>>, <<57, 100>>, <<58, 100>>}

\* line 34: int(min(100, max(0, (downloaded / total) * 100))), for totals up
\* to 100
Pct(downloaded, total) ==
    LET quotient == (downloaded * 100) \div total
        float == IF <<downloaded, total>> \in RoundedBelow
                 THEN quotient - 1 ELSE quotient
    IN  Min2(100, Max2(0, float))

\* line 32: d.get('total_bytes') or d.get('total_bytes_estimate') or 0
TotalOf(d) == Or0(PyOr(d.total_bytes, d.total_bytes_estimate))

\* an _update_progress whose else branch puts the progress back to 0
update_progress_reset(t, d) ==
    IF d.status = "downloading"
    THEN IF TotalOf(d) # 0
         THEN [t EXCEPT !.progress = Pct(Or0(d.downloaded_bytes), TotalOf(d))]
         ELSE [t EXCEPT !.progress = 0]
    ELSE t

\* the task dict after _update_progress(task_id, d); t is an existing task
update_progress(t, d) ==
    IF d.status = "downloading"
    THEN IF TotalOf(d) # 0
         THEN [t EXCEPT !.progress = Pct(Or0(d.downloaded_bytes), TotalOf(d))]
         ELSE [t EXCEPT !.progress = t.progress]
    ELSE t

\* a progress event of the collaborator: the dict d passed to the hook
Event(status, downloaded, total, estimate) ==
    [status |-> status, downloaded_bytes |-> downloaded,
     total_bytes |-> total, total_bytes_estimate |-> estimate]

----------------------------------------------------------------------------
(* _download_background, lines 40-60: the thread of one task               *)

Idle == [pc |-> "none", info |-> None]

FailedMessage == "Download failed on server - try again or use the local yt-dlp command"

\* a thread that starts the download without recording it
WorkerBegin_silent(id) ==
    /\ worker[id].pc = "spawned"
    /\ worker' = [worker EXCEPT ![id].pc = "running"]
    /\ UNCHANGED <<tasks, sawTotal, disk, req, resolver, abandoned>>

\* line 43
WorkerBegin(id) ==
    /\ worker[id].pc = "spawned"
    /\ tasks' = [tasks EXCEPT ![id].status = "downloading"]
    /\ worker' = [worker EXCEPT ![id].pc = "running"]
    /\ UNCHANGED <<sawTotal, disk, req, resolver, abandoned>>

\* lines 26-37: what a call _update_progress(task_id, d) does to _tasks
Hooked(task_id, d) ==
    IF task_id \notin TaskIds \/ tasks[task_id] = NoTask
    THEN UNCHANGED <<tasks, sawTotal>>
    ELSE /\ tasks' = [tasks EXCEPT ![task_id] = update_progress(tasks[task_id], d)]
         /\ sawTotal' = [sawTotal EXCEPT
                ![task_id] = @ \/ (d.status = "downloading" /\ TotalOf(d) # 0)]

\* line 129: a progress hook called by the collaborator inside extract_info
ProgressHook(id, d) ==
    /\ worker[id].pc \in {"running", "written"}
    /\ Hooked(id, d)
    /\ UNCHANGED <<worker, disk, req, resolver, abandoned>>

\* _update_progress applied to an id that _tasks does not have.  No hook of
\* the program is bound to such an id (line 129 binds the id of line 119);
\* the step exists to run lines 27-29 on it
StrayHook(d) ==
    /\ Hooked(UnknownId, d)
    /\ UNCHANGED <<worker, disk, req, resolver, abandoned>>

\* line 45: extract_info(url, download=True) saves the file under the template
WorkerWrite(id, info) ==
    /\ worker[id].pc = "running"
    /\ disk' = WriteFile(disk, prepare_filename(out_template(id), info), id)
    /\ worker' = [worker EXCEPT ![id] = [pc |-> "written", info |-> Some(info)]]
    /\ UNCHANGED <<tasks, sawTotal, req, resolver, abandoned>>

\* a completion that leaves the progress where the last event put it
WorkerSucceed_keep_progress(id) ==
    /\ worker[id].pc = "written"
    /\ LET info == Val(worker[id].info)
           filename == prepare_filename(out_template(id), info)
       IN  tasks' = [tasks EXCEPT ![id] =
                        [@ EXCEPT !.status = "completed",
                                  !.filename = Some(basename(filename)),
                                  !.filepath = Some(filename),
                                  !.title = info.title]]
    /\ worker' = [worker EXCEPT ![id] = [pc |-> "done", info |-> None]]
    /\ UNCHANGED <<sawTotal, disk, req, resolver, abandoned>>

\* a completion that records the name of the file and not its path
WorkerSucceed_no_filepath(id) ==
    /\ worker[id].pc = "written"
    /\ LET info == Val(worker[id].info)
           filename == prepare_filename(out_template(id), info)
       IN  tasks' = [tasks EXCEPT ![id] =
                        [@ EXCEPT !.status = "completed",
                                  !.progress = 100,
                                  !.filename = Some(basename(filename)),
                                  !.title = info.title]]
    /\ worker' = [worker EXCEPT ![id] = [pc |-> "done", info |-> None]]
    /\ UNCHANGED <<sawTotal, disk, req, resolver, abandoned>>

\* lines 46-54: extract_info has returned
WorkerSucceed(id) ==
    /\ worker[id].pc = "written"
    /\ LET info == Val(worker[id].info)
           filename == prepare_filename(out_template(id), info)
       IN  tasks' = [tasks EXCEPT ![id] =
                        [@ EXCEPT !.status = "completed",
                                  !.progress = 100,
                                  !.filename = Some(basename(filename)),
                                  !.filepath = Some(filename),
                                  !.title = info.title]]
    /\ worker' = [worker EXCEPT ![id] = [pc |-> "done", info |-> None]]
    /\ UNCHANGED <<sawTotal, disk, req, resolver, abandoned>>

\* a failure handler that also puts the progress back to 0
WorkerFail_reset(id, exc) ==
    /\ worker[id].pc \in {"running", "written"}
    /\ tasks' = [tasks EXCEPT ![id] =
                    [@ EXCEPT !.status = "failed", !.progress = 0,
                              !.error = Some(FailedMessage)]]
    /\ worker' = [worker EXCEPT ![id] = [pc |-> "done", info |-> None]]
    /\ UNCHANGED <<sawTotal, disk, req, resolver, abandoned>>

\* an except branch that logs the exception and leaves the task as it is
WorkerFail_swallow(id, exc) ==
    /\ worker[id].pc \in {"running", "written"}
    /\ worker' = [worker EXCEPT ![id] = [pc |-> "done", info |-> None]]
    /\ UNCHANGED <<tasks, sawTotal, disk, req, resolver, abandoned>>

\* an except branch that stores the text of the exception in the task
WorkerFail_detail(id, exc) ==
    /\ worker[id].pc \in {"running", "written"}
    /\ tasks' = [tasks EXCEPT ![id] =
                    [@ EXCEPT !.status = "failed", !.error = Some(exc)]]
    /\ worker' = [worker EXCEPT ![id] = [pc |-> "done", info |-> None]]
    /\ UNCHANGED <<sawTotal, disk, req, resolver, abandoned>>

\* lines 55-60: the collaborator raised exc, before or after it saved the
\* file; line 56 logs exc and nothing else uses it
WorkerFail(id, exc) ==
    /\ worker[id].pc \in {"running", "written"}
    /\ tasks' = [tasks EXCEPT ![id] =
                    [@ EXCEPT !.status = "failed", !.error = Some(FailedMessage)]]
    /\ worker' = [worker EXCEPT ![id] = [pc |-> "done", info |-> None]]
    /\ UNCHANGED <<sawTotal, disk, req, resolver, abandoned>>

----------------------------------------------------------------------------
(* The client's requests.  The client has one request in flight at a time; *)
(* the threads a request starts run on while later requests are served.    *)

NoReq == [ep |-> "none", pc |-> "done", code |-> 0]

ClientFree == req.pc = "done"

Respond(ep, code, body) == [ep |-> ep, pc |-> "done", code |-> code, body |-> body]

\* a validation without the domain test of line 76
UrlRejected_skipped(data) == FALSE

\* lines 73 and 76: the two validation tests of api_start_download
UrlMissing(data) == ~TruthyStr(data.url)
UrlRejected(data) ==
    /\ ~Contains(Val(data.url), "xiaohongshu.com")
    /\ ~Contains(Val(data.url), "xhslink.com")

\* a handler that registers the task before it looks at the mode
api_start_download_registers(data) ==
    /\ ClientFree
    /\ IF UrlMissing(data)
       THEN /\ req' = Respond("download", 400, [error |-> "url is required"])
                         @@ [data |-> data]
            /\ UNCHANGED <<tasks, worker, resolver>>
       ELSE IF UrlRejected(data)
       THEN /\ req' = Respond("download", 400, [error |-> "invalid rednote url"])
                         @@ [data |-> data]
            /\ UNCHANGED <<tasks, worker, resolver>>
       ELSE \E task_id \in uuid4 :
            /\ tasks' = [tasks EXCEPT ![task_id] = NewTask(Val(data.url))]
            /\ IF data.mode = Some("direct")
               THEN /\ abandoned < MaxAbandoned
                    /\ resolver' = [pc |-> "running", info |-> None, error |-> None]
                    /\ req' = [ep |-> "download", pc |-> "join", code |-> 0,
                               expired |-> FALSE, unfinished |-> FALSE, data |-> data]
                    /\ UNCHANGED worker
               ELSE /\ worker' = [worker EXCEPT
                                     ![task_id] = [pc |-> "spawned", info |-> None]]
                    /\ req' = [ep |-> "download", pc |-> "return", code |-> 0,
                               task_id |-> task_id, data |-> data]
                    /\ UNCHANGED resolver
    /\ UNCHANGED <<sawTotal, disk, abandoned>>

\* lines 68-77, 107-108 and 119-133 of api_start_download: validation, then
\* either the resolver thread of direct mode or a new task and its thread.
\* The request keeps its body, data, until the handler's next step
api_start_download(data) ==
    /\ ClientFree
    /\ IF UrlMissing(data)
       THEN /\ req' = Respond("download", 400, [error |-> "url is required"])
                         @@ [data |-> data]
            /\ UNCHANGED <<tasks, worker, resolver>>
       ELSE IF UrlRejected(data)
       THEN /\ req' = Respond("download", 400, [error |-> "invalid rednote url"])
                         @@ [data |-> data]
            /\ UNCHANGED <<tasks, worker, resolver>>
       ELSE IF data.mode = Some("direct")
       THEN /\ abandoned < MaxAbandoned
            /\ resolver' = [pc |-> "running", info |-> None, error |-> None]
            /\ req' = [ep |-> "download", pc |-> "join", code |-> 0,
                       expired |-> FALSE, unfinished |-> FALSE, data |-> data]
            /\ UNCHANGED <<tasks, worker>>
       ELSE \E task_id \in uuid4 :
            /\ tasks' = [tasks EXCEPT ![task_id] = NewTask(Val(data.url))]
            /\ worker' = [worker EXCEPT ![task_id] = [pc |-> "spawned", info |-> None]]
            /\ req' = [ep |-> "download", pc |-> "return", code |-> 0,
                       task_id |-> task_id, data |-> data]
            /\ UNCHANGED resolver
    /\ UNCHANGED <<sawTotal, disk, abandoned>>

\* line 135: the response of an accepted submission
api_start_download_return ==
    /\ req.ep = "download" /\ req.pc = "return"
    /\ req' = Respond("download", 200, [task_id |-> req.task_id])
    /\ UNCHANGED <<tasks, worker, sawTotal, disk, resolver, abandoned>>

\* the client holds the response of an accepted submission of task_id and
\* has sent nothing since
JustSubmitted(task_id) ==
    /\ req.ep = "download" /\ req.pc = "done" /\ req.code = 200
    /\ req.body = [task_id |-> task_id]

\* lines 140-144 of api_status: the lookup and the first read of 'status'
api_status(task_id) ==
    /\ ClientFree
    /\ IF task_id \notin TaskIds \/ tasks[task_id] = NoTask
       THEN req' = Respond("status", 404, [error |-> "not found"])
                       @@ [task_id |-> task_id,
                           after_submit |-> JustSubmitted(task_id)]
       ELSE req' = [ep |-> "status", pc |-> "l145", code |-> 0,
                    task_id |-> task_id,
                    after_submit |-> JustSubmitted(task_id),
                    body |-> [status |-> tasks[task_id].status]]
    /\ UNCHANGED <<tasks, worker, sawTotal, disk, resolver, abandoned>>

\* lines 145-147: the reads of 'progress', 'filename' and 'title', one a step
api_status_read ==
    /\ req.ep = "status"
    /\ LET t == tasks[req.task_id] IN
       \/ /\ req.pc = "l145"
          /\ req' = [req EXCEPT !.pc = "l146",
                        !.body = [status |-> @.status, progress |-> t.progress]]
       \/ /\ req.pc = "l146"
          /\ req' = [req EXCEPT !.pc = "l147",
                        !.body = [status |-> @.status, progress |-> @.progress,
                                  filename |-> t.filename]]
       \/ /\ req.pc = "l147"
          /\ req' = [req EXCEPT !.pc = "l149",
                        !.body = [status |-> @.status, progress |-> @.progress,
                                  filename |-> @.filename, title |-> t.title]]
    /\ UNCHANGED <<tasks, worker, sawTotal, disk, resolver, abandoned>>

StatusFailedMessage == "Download failed on server - check server logs or try the local command"

\* lines 149-151: the second read of 'status' and the response
api_status_return ==
    /\ req.ep = "status" /\ req.pc = "l149"
    /\ LET t == tasks[req.task_id] IN
       req' = [req EXCEPT !.pc = "done", !.code = 200,
                  !.body = [status |-> @.status, progress |-> @.progress,
                            filename |-> @.filename, title |-> @.title,
                            error |-> IF t.status = "failed"
                                      THEN Some(StatusFailedMessage) ELSE None]]
    /\ UNCHANGED <<tasks, worker, sawTotal, disk, resolver, abandoned>>

\* a file endpoint without the test of line 159
api_download_file_no_status(task_id) ==
    /\ ClientFree
    /\ LET known == task_id \in TaskIds /\ tasks[task_id] # NoTask
           t == tasks[task_id]
           answer ==
               IF ~known THEN Respond("file", 404, [error |-> "not found"])
               ELSE IF t.filepath = None \/ ~exists(Val(t.filepath))
               THEN Respond("file", 404, [error |-> "file missing"])
               ELSE Respond("file", 200,
                            [file |-> Val(t.filepath), download_name |-> t.filename])
       IN  req' = answer @@ [task_id |-> task_id]
    /\ UNCHANGED <<tasks, worker, sawTotal, disk, resolver, abandoned>>

\* a file endpoint that marks a task as served once it has sent its file
api_download_file_marks(task_id) ==
    /\ ClientFree
    /\ LET known == task_id \in TaskIds /\ tasks[task_id] # NoTask
           t == tasks[task_id]
           answer ==
               IF ~known THEN Respond("file", 404, [error |-> "not found"])
               ELSE IF t.status # "completed"
               THEN Respond("file", 400, [error |-> "not completed"])
               ELSE IF t.filepath = None \/ ~exists(Val(t.filepath))
               THEN Respond("file", 404, [error |-> "file missing"])
               ELSE Respond("file", 200,
                            [file |-> Val(t.filepath), download_name |-> t.filename])
       IN  /\ req' = answer @@ [task_id |-> task_id]
           /\ tasks' = IF answer.code = 200
                       THEN [tasks EXCEPT ![task_id].progress = 0]
                       ELSE tasks
    /\ UNCHANGED <<worker, sawTotal, disk, resolver, abandoned>>

\* lines 154-165 of api_download_file
api_download_file(task_id) ==
    /\ ClientFree
    /\ LET known == task_id \in TaskIds /\ tasks[task_id] # NoTask
           t == tasks[task_id]
           answer ==
               IF ~known THEN Respond("file", 404, [error |-> "not found"])
               ELSE IF t.status # "completed"
               THEN Respond("file", 400, [error |-> "not completed"])
               ELSE IF t.filepath = None \/ ~exists(Val(t.filepath))
               THEN Respond("file", 404, [error |-> "file missing"])
               ELSE Respond("file", 200,
                            [file |-> Val(t.filepath), download_name |-> t.filename])
       IN  req' = answer @@ [task_id |-> task_id]
    /\ UNCHANGED <<tasks, worker, sawTotal, disk, resolver, abandoned>>

\* line 174: 2 * 3600 seconds, in hours
Retention == 2

\* the client holds the response of a cleanup run, and since that run no file
\* was written and no time has passed
JustCleaned == req.ep = "cleanup" /\ req.left = disk

\* a cleanup that counts the old files and leaves them where they are
api_cleanup_no_unlink ==
    /\ ClientFree
    /\ LET old == {f \in disk : f.age > Retention} IN
       /\ disk' = disk
       /\ req' = Respond("cleanup", 200, [removed |-> Cardinality(old)])
                     @@ [left |-> disk', again |-> JustCleaned]
    /\ UNCHANGED <<tasks, worker, sawTotal, resolver, abandoned>>

\* a cleanup that also drops the task whose file it removes
api_cleanup_forgets ==
    /\ ClientFree
    /\ LET old == {f \in disk : f.age > Retention} IN
       /\ disk' = disk \ old
       /\ tasks' = [id \in TaskIds |->
                       IF \E f \in old : f.owner = id THEN NoTask ELSE tasks[id]]
       /\ req' = Respond("cleanup", 200, [removed |-> Cardinality(old)])
                     @@ [left |-> disk', again |-> JustCleaned]
    /\ UNCHANGED <<worker, sawTotal, resolver, abandoned>>

\* lines 168-179 of api_cleanup.  Beside the response the request keeps what
\* the run left under DOWNLOAD_FOLDER, and whether the run came straight
\* after another one
api_cleanup ==
    /\ ClientFree
    /\ LET old == {f \in disk : f.age > Retention} IN
       /\ disk' = disk \ old
       /\ req' = Respond("cleanup", 200, [removed |-> Cardinality(old)])
                     @@ [left |-> disk', again |-> JustCleaned]
    /\ UNCHANGED <<tasks, worker, sawTotal, resolver, abandoned>>

\* an hour passes: every file's mtime is an hour further back
Tick ==
    /\ disk # {}
    /\ \A f \in disk : f.age < MaxAge
    /\ disk' = {[f EXCEPT !.age = @ + 1] : f \in disk}
    /\ UNCHANGED <<tasks, worker, sawTotal, req, resolver, abandoned>>

----------------------------------------------------------------------------
(* Direct mode: _extract_info_with_timeout, lines 79-94, _choose_direct_url,*)
(* lines 96-105, and the branch of api_start_download that uses them,      *)
(* lines 107-117                                                           *)

NoThread == [pc |-> "none", info |-> None, error |-> None]

\* a key that ranks the bitrate first
FormatKey_tbr_first(x) == <<Or0(x.tbr), Or0(x.height), Or0(x.filesize)>>

\* line 103: the key of max(): (height or 0, tbr or 0, filesize or 0)
FormatKey(x) == <<Or0(x.height), Or0(x.tbr), Or0(x.filesize)>>

\* Python's order on tuples of three numbers
TupleLess(a, b) ==
    \/ a[1] < b[1]
    \/ a[1] = b[1] /\ a[2] < b[2]
    \/ a[1] = b[1] /\ a[2] = b[2] /\ a[3] < b[3]

\* max(formats, key=...): the first element that no other one exceeds
PyMax(formats) ==
    LET best == CHOOSE i \in 1..Len(formats) :
                    /\ \A j \in 1..Len(formats) :
                           ~TupleLess(FormatKey(formats[i]), FormatKey(formats[j]))
                    /\ \A j \in 1..(i - 1) :
                           TupleLess(FormatKey(formats[j]), FormatKey(formats[i]))
    IN  formats[best]

\* line 101: info.get('requested_formats') or info.get('formats') or []
Candidates(info) ==
    IF info.requested_formats # None /\ Val(info.requested_formats) # <<>>
    THEN Val(info.requested_formats)
    ELSE IF info.formats # None /\ Val(info.formats) # <<>>
    THEN Val(info.formats)
    ELSE <<>>

\* a choice that does not look at is_live
choose_direct_url_live(info) ==
    IF info = None THEN None
    ELSE IF Candidates(Val(info)) # <<>>
    THEN PyMax(Candidates(Val(info))).url
    ELSE Val(info).url

\* lines 96-105; info is None when the collaborator returned no dict
choose_direct_url(info) ==
    IF info = None THEN None
    ELSE IF TruthyFlag(Val(info).is_live) THEN None
    ELSE IF Candidates(Val(info)) # <<>>
    THEN PyMax(Candidates(Val(info))).url
    ELSE Val(info).url

\* lines 81-86, the thread _worker: extract_info(url, download=False) returns
\* info, or raises e; the thread has stored the outcome and is still alive
ResolverReturn(Infos) ==
    /\ resolver.pc = "running"
    /\ \E info \in Infos : resolver' = [resolver EXCEPT !.pc = "stored", !.info = info]
    /\ UNCHANGED <<tasks, worker, sawTotal, disk, req, abandoned>>

ResolverRaise(e) ==
    /\ resolver.pc = "running"
    /\ resolver' = [resolver EXCEPT !.pc = "stored", !.error = Some(e)]
    /\ UNCHANGED <<tasks, worker, sawTotal, disk, req, abandoned>>

\* the thread _worker ends: is_alive() is False from here on
ResolverExit ==
    /\ resolver.pc = "stored"
    /\ resolver' = [resolver EXCEPT !.pc = "dead"]
    /\ UNCHANGED <<tasks, worker, sawTotal, disk, req, abandoned>>

\* line 89: th.join(timeout) returns because the thread has ended
JoinEnded ==
    /\ req.ep = "download" /\ req.pc = "join"
    /\ resolver.pc = "dead"
    /\ req' = [req EXCEPT !.pc = "l90", !.expired = FALSE, !.unfinished = FALSE]
    /\ UNCHANGED <<tasks, worker, sawTotal, disk, resolver, abandoned>>

\* th.join() without a timeout: it returns only once the thread has ended
JoinTimeout_untimed ==
    /\ req.ep = "download" /\ req.pc = "join"
    /\ resolver.pc = "dead"
    /\ req' = [req EXCEPT !.pc = "l90", !.expired = TRUE, !.unfinished = FALSE]
    /\ UNCHANGED <<tasks, worker, sawTotal, disk, resolver, abandoned>>

\* line 89: th.join(timeout) returns because the timeout has expired;
\* unfinished records whether extract_info was still running at that moment
JoinTimeout ==
    /\ req.ep = "download" /\ req.pc = "join"
    /\ req' = [req EXCEPT !.pc = "l90", !.expired = TRUE,
                          !.unfinished = (resolver.pc = "running")]
    /\ UNCHANGED <<tasks, worker, sawTotal, disk, resolver, abandoned>>

\* lines 90-94 and 108-117: the answer of a direct-mode request
DirectAnswer ==
    IF resolver.pc # "dead"
    THEN Respond("download", 504, [error |-> "preparation timed out"])
    ELSE IF resolver.error # None
    THEN Respond("download", 502, [error |-> "could not prepare browser download"])
    ELSE IF choose_direct_url(resolver.info) # None /\ choose_direct_url(resolver.info) # Some("")
    THEN Respond("download", 200, [direct_url |-> Val(choose_direct_url(resolver.info))])
    ELSE Respond("download", 422, [error |-> "no direct downloadable stream found"])

\* line 90 onwards: is_alive() decides; a thread still alive is left running
\* and the request no longer refers to it
DirectReturn ==
    /\ req.ep = "download" /\ req.pc = "l90"
    /\ req' = DirectAnswer @@ [expired |-> req.expired, unfinished |-> req.unfinished]
    /\ IF resolver.pc # "dead"
       THEN resolver' = NoThread /\ abandoned' = abandoned + 1
       ELSE UNCHANGED <<resolver, abandoned>>
    /\ UNCHANGED <<tasks, worker, sawTotal, disk>>

\* an abandoned thread ends; its container is referenced by nothing else
AbandonedExit ==
    /\ abandoned > 0
    /\ abandoned' = abandoned - 1
    /\ UNCHANGED <<tasks, worker, sawTotal, disk, req, resolver>>

----------------------------------------------------------------------------
(* What the client and the collaborator may supply                         *)

XhsUrl == <<"https://www.", "xiaohongshu.com", "/explore/1">>
XhsLink == <<"http://", "xhslink.com", "/a">>
OtherUrl == <<"https://", "example.com", "/v">>

\* the JSON bodies of POST /api/v2/download
Bodies(Urls, Modes) == [url : Urls, mode : Modes]

\* the lists of up to n format dicts that extract_info(download=False) may
\* return: every height, tbr and filesize of the given sets, and as url the
\* name of the format's place in the list
SeqsUpTo(S, n) == UNION {[1..k -> S] : k \in 0..n}

PlaceUrl(i) == <<"u1", "u2", "u3", "u4">>[i]

FormatLists(Heights, Tbrs, Sizes, n) ==
    {[i \in 1..Len(ks) |->
        [height |-> ks[i].height, tbr |-> ks[i].tbr, filesize |-> ks[i].filesize,
         url |-> Some(PlaceUrl(i))]] :
     ks \in SeqsUpTo([height : Heights, tbr : Tbrs, filesize : Sizes], n)}

InfoDicts(Lives, Req, Fmts, TopUrls) ==
    [is_live : Lives, requested_formats : Req, formats : Fmts, url : TopUrls]

\* the info dicts extract_info(download=True) may return
Untitled == [title |-> None]
Clip == [title |-> Some("clip")]

----------------------------------------------------------------------------
(* The system                                                              *)

Init ==
    /\ tasks = [id \in TaskIds |-> NoTask]
    /\ worker = [id \in TaskIds |-> Idle]
    /\ sawTotal = [id \in TaskIds |-> FALSE]
    /\ disk = {}
    /\ req = NoReq
    /\ resolver = NoThread
    /\ abandoned = 0

\* what the collaborator's extract_info raises
Exceptions == {"DownloadError: unable to download video data",
               "KeyError: 'title'"}

\* the download threads, with the progress events of Ev
Workers(Ev, Infos) ==
    \E id \in TaskIds :
        \/ WorkerBegin(id)
        \/ \E d \in Ev : ProgressHook(id, d)
        \/ \E info \in Infos : WorkerWrite(id, info)
        \/ WorkerSucceed(id)
        \/ \E exc \in Exceptions : WorkerFail(id, exc)

\* the steps of a direct-mode request and of its resolver thread
Direct(Infos) ==
    \/ ResolverReturn(Infos)
    \/ ResolverRaise("ExtractorError")
    \/ ResolverExit
    \/ JoinEnded
    \/ JoinTimeout
    \/ DirectReturn
    \/ AbandonedExit

\* the requests for a task
TaskRequests ==
    \/ api_start_download_return
    \/ \E id \in TaskIds \cup {UnknownId} : api_status(id)
    \/ api_status_read
    \/ api_status_return
    \/ \E id \in TaskIds \cup {UnknownId} : api_download_file(id)

\* the progress events of a download of 4 bytes whose size the collaborator
\* knows exactly, knows as an estimate, or does not know
SpecEvents ==
    {Event("downloading", Some(1), Some(4), None),
     Event("downloading", Some(5), None, Some(4)),
     Event("downloading", None, Some(4), Some(2)),
     Event("downloading", Some(3), Some(0), None),
     Event("finished", Some(4), Some(4), None)}

\* Spec: the asynchronous downloads, their progress, and the endpoints that
\* read a task
SpecBodies ==
    Bodies({None, Some(<<>>), Some(XhsUrl), Some(OtherUrl)}, {None})

Next ==
    \/ \E data \in SpecBodies : api_start_download(data)
    \/ TaskRequests
    \/ Workers(SpecEvents, {Clip})

Spec == Init /\ [][Next]_vars

\* DirectSpec: direct-mode requests beside asynchronous downloads
DirectBodies ==
    Bodies({None, Some(XhsLink), Some(OtherUrl)}, {None, Some("direct")})

Fmt(height, tbr, filesize, url) ==
    [height |-> height, tbr |-> tbr, filesize |-> filesize, url |-> url]

DirectInfos ==
    {None,
     Some([is_live |-> Some(TRUE), requested_formats |-> None,
           formats |-> Some(<<Fmt(Some(720), None, None, Some("a"))>>),
           url |-> Some("top")]),
     Some([is_live |-> Some(FALSE), requested_formats |-> None,
           formats |-> Some(<<Fmt(Some(480), Some(500), Some(1000), Some("a")),
                              Fmt(Some(720), Some(300), Some(2000), Some("b"))>>),
           url |-> None]),
     Some([is_live |-> None, requested_formats |-> None,
           formats |-> Some(<<Fmt(Some(720), None, None, None)>>),
           url |-> Some("top")]),
     Some([is_live |-> None, requested_formats |-> None, formats |-> None,
           url |-> Some("top")])}

DirectNext ==
    \/ \E data \in DirectBodies : api_start_download(data)
    \/ api_start_download_return
    \/ Direct(DirectInfos)
    \/ Workers({Event("downloading", Some(1), Some(4), None)}, {Clip})

DirectSpec == Init /\ [][DirectNext]_vars

\* the request handler always runs on: a timed join returns and the handler
\* answers, whatever the collaborator does
FairDirectSpec == DirectSpec /\ WF_vars(JoinTimeout) /\ WF_vars(DirectReturn)

\* ChooseSpec: direct-mode requests over every info dict with up to MaxFormats
\* formats
ChooseFormats ==
    FormatLists({None, Some(480), Some(720)}, {None, Some(500)},
                {None, Some(1000)}, MaxFormats)

ChooseInfos ==
    {Some(i) : i \in
        InfoDicts({None, Some(TRUE)},
                  {None, Some(<<Fmt(Some(480), None, None, Some("r"))>>)},
                  {None} \cup {Some(fs) : fs \in ChooseFormats},
                  {None, Some("top")})}

ChooseNext ==
    \/ api_start_download([url |-> Some(XhsLink), mode |-> Some("direct")])
    \/ Direct(ChooseInfos)

ChooseSpec == Init /\ [][ChooseNext]_vars

\* RetentionSpec: downloads whose collaborator reports no progress, the
\* passing of time and the cleanup of old files
RetentionNext ==
    \/ api_start_download([url |-> Some(XhsUrl), mode |-> None])
    \/ TaskRequests
    \/ api_cleanup
    \/ Tick
    \/ \E id \in TaskIds :
           \/ WorkerBegin(id)
           \/ WorkerWrite(id, Clip)
           \/ WorkerSucceed(id)
           \/ \E exc \in Exceptions : WorkerFail(id, exc)

RetentionSpec == Init /\ [][RetentionNext]_vars

\* ProgressSpec: downloads under progress events whose percentages are 57
\* and 100, none of them 0: a download of 50 bytes of which 29 are there, one
\* that has more bytes than its estimated total, two events without a
\* usable total, and an event of another status
ProgressEvents ==
    {Event("downloading", Some(29), Some(50), None),
     Event("downloading", Some(5), None, Some(4)),
     Event("downloading", Some(3), Some(0), None),
     Event("downloading", Some(3), None, None),
     Event("finished", Some(2), Some(4), None)}

ProgressNext ==
    \/ api_start_download([url |-> Some(XhsUrl), mode |-> None])
    \/ api_start_download_return
    \/ Workers(ProgressEvents, {Clip})
    \/ \E d \in ProgressEvents : StrayHook(d)

ProgressSpec == Init /\ [][ProgressNext]_vars

\* a step of the thread of id other than a progress hook: it starts, or the
\* collaborator's call saves the file, returns or raises
ThreadStep(id) ==
    \/ WorkerBegin(id)
    \/ WorkerWrite(id, Clip)
    \/ WorkerSucceed(id)
    \/ \E exc \in Exceptions : WorkerFail(id, exc)

\* every started thread is scheduled, and the collaborator's call does not
\* go on for ever: it returns or raises after finitely many progress events
FairProgressSpec ==
    ProgressSpec /\ \A id \in TaskIds : WF_vars(ThreadStep(id))

\* FrameSpec: every endpoint and every thread beside one another: downloads
\* with one progress event, polls, the file endpoint, cleanup (of files that
\* are all fresh: no time passes here, RetentionSpec has the old files), and
\* direct-mode requests
FrameBodies == Bodies({Some(XhsUrl)}, {None, Some("direct")})

FrameNext ==
    \/ \E data \in FrameBodies : api_start_download(data)
    \/ TaskRequests
    \/ api_cleanup
    \/ Workers({Event("downloading", Some(1), Some(4), None)}, {Clip})
    \/ Direct({None})

FrameSpec == Init /\ [][FrameNext]_vars

----------------------------------------------------------------------------
(* Properties of the task lifecycle, checked under Spec                    *)

StatusStep(a, b) ==
    \/ a = b
    \/ a = "absent" /\ b = "queued"
    \/ a = "queued" /\ b = "downloading"
    \/ a = "downloading" /\ b \in {"completed", "failed"}

\* C1: every change of a task's status is the creation as queued, queued to
\* downloading, or downloading to completed or failed; no status is skipped or
\* revisited, and completed and failed are never left.
C1_StatusSequence ==
    [][\A id \in TaskIds : StatusStep(tasks[id].status, tasks'[id].status)]_vars

C1_Witness ==
    \E a, b \in TaskIds :
        tasks[a].status = "completed" /\ tasks[b].status = "failed"

\* C2 as claimed: once an event with a nonzero total has been applied to a
\* task, no later step lowers the task's progress.
C2_NeverDecreases ==
    [][\A id \in TaskIds :
          sawTotal[id] => tasks'[id].progress >= tasks[id].progress]_vars

\* C2, amended: a step lowers a task's progress only if it is a progress event
\* of that task's running download with status downloading and a nonzero
\* total, whose percentage is below the stored one; an event without a total,
\* an event of another status, the completion and the failure never lower it.
C2_DecreasesOnlyByLowerEvent ==
    [][\A id \in TaskIds :
          (tasks[id] # NoTask /\ tasks'[id].progress < tasks[id].progress)
          => /\ worker[id].pc \in {"running", "written"}
             /\ worker'[id] = worker[id]
             /\ tasks'[id] = [tasks[id] EXCEPT !.progress = tasks'[id].progress]
             /\ \E d \in SpecEvents :
                  /\ d.status = "downloading"
                  /\ TotalOf(d) # 0
                  /\ Pct(Or0(d.downloaded_bytes), TotalOf(d)) < tasks[id].progress
                  /\ tasks'[id].progress = Pct(Or0(d.downloaded_bytes), TotalOf(d))]_vars

C2_Witness ==
    \E id \in TaskIds :
        /\ sawTotal[id]
        /\ tasks[id].status = "downloading"
        /\ tasks[id].progress = 25

\* C3: every task whose status is completed has progress 100.
C3_CompletedIs100 ==
    \A id \in TaskIds : tasks[id].status = "completed" => tasks[id].progress = 100

C3_Witness ==
    \E id \in TaskIds : tasks[id].status = "completed" /\ sawTotal[id]

\* a status response to a poll sent right after the submission's response
ImmediatePoll == req.ep = "status" /\ req.pc = "done" /\ req.after_submit

\* C4 as claimed: a submission's task id was never issued before, and the poll
\* sent right after its response reports queued or downloading.
C4_ImmediatePollActive ==
    ImmediatePoll => req.code = 200 /\ req.body.status \in {"queued", "downloading"}

\* C4, amended: a submission's task id was never issued before, and the poll
\* sent right after its response finds the task (200, never 404) with status
\* queued, downloading, completed or failed: the worker may have finished
\* before the poll reads the status.
C4_FreshIdAndFound ==
    /\ [][(req'.ep = "download" /\ req'.pc = "return" /\ req' # req)
            => req'.task_id \notin Issued]_vars
    /\ [](ImmediatePoll =>
            /\ req.code = 200
            /\ req.body.status \in {"queued", "downloading", "completed", "failed"})

C4_Witness ==
    ImmediatePoll /\ req.code = 200 /\ req.body.status = "failed"

\* C9: the file endpoint serves a file only for a task that is completed when
\* the request is served, answers 400 for a task that is then queued,
\* downloading or failed, and answers 404 for an id never issued; the status
\* endpoint answers 404 for an id never issued.
C9_FileOnlyWhenCompleted ==
    [][(req' # req /\ req'.ep \in {"file", "status"} /\ req.pc = "done")
        => LET id == req'.task_id
               issued == id \in Issued
           IN  /\ ~issued => req'.pc = "done" /\ req'.code = 404
               /\ (req'.ep = "file" /\ req'.code = 200)
                    => issued /\ tasks[id].status = "completed"
               /\ (req'.ep = "file" /\ issued
                     /\ tasks[id].status \in {"queued", "downloading", "failed"})
                    => req'.code = 400]_vars

C9_Witness ==
    /\ req.ep = "file" /\ req.code = 400
    /\ tasks[req.task_id].status = "downloading"
    /\ \E id \in TaskIds : tasks[id].status = "completed"

\* the file at path was written by task id and by no other
OwnFile(path, id) == \A f \in disk : f.path = path => f.owner = id

\* C10: two tasks never write the same output path, and the file a task has
\* written stays its own: no other task's worker overwrites it.
C10_OwnOutputPath ==
    /\ \A a, b \in TaskIds :
          (a # b /\ worker[a].pc = "written" /\ worker[b].pc = "written")
          => prepare_filename(out_template(a), Val(worker[a].info))
               # prepare_filename(out_template(b), Val(worker[b].info))
    /\ \A id \in TaskIds :
          /\ worker[id].pc = "written"
               => /\ exists(prepare_filename(out_template(id), Val(worker[id].info)))
                  /\ OwnFile(prepare_filename(out_template(id), Val(worker[id].info)), id)
          /\ tasks[id].status = "completed"
               => exists(Val(tasks[id].filepath)) /\ OwnFile(Val(tasks[id].filepath), id)

C10_Witness ==
    \E a, b \in TaskIds :
        /\ a # b
        /\ worker[a].pc = "written" /\ worker[b].pc = "written"
        /\ worker[a].info = worker[b].info

----------------------------------------------------------------------------
(* Properties of direct mode, checked under DirectSpec, FairDirectSpec and *)
(* ChooseSpec                                                              *)

\* a direct-mode request waiting in th.join, and one that has been answered
DirectWaiting == req.ep = "download" /\ req.pc = "join"
DirectDone == req.ep = "download" /\ req.pc = "done" /\ "expired" \in DOMAIN req

\* C5 as claimed: a direct-mode request whose extract_info had not returned
\* when the join timed out is answered 504.
C5_UnfinishedAtExpiryIs504 ==
    (DirectDone /\ req.expired /\ req.unfinished) => req.code = 504

\* C5, amended: a direct-mode request is answered 504 exactly when its resolver
\* thread is still alive at the is_alive() test that follows the timed join (a
\* thread that ends between the two is answered from its result); every
\* direct-mode request waiting in the join is eventually answered, whether or
\* not the collaborator ever returns; and the end of an abandoned thread
\* changes neither the response given nor any task record.
C5_TimeoutAnswers ==
    /\ [][(req.pc = "l90" /\ req'.pc = "done")
            => (req'.code = 504 <=> resolver.pc # "dead")]_vars
    /\ (DirectWaiting ~> DirectDone)
    /\ [][abandoned' < abandoned => UNCHANGED <<req, tasks>>]_vars

C5_Witness ==
    /\ DirectDone /\ req.code = 504 /\ req.unfinished
    /\ abandoned = 0
    /\ \E id \in TaskIds : tasks[id] # NoTask

\* a direct-mode request answered from the info dict its thread returned
AnsweredFromInfo ==
    /\ DirectDone
    /\ resolver.pc = "dead" /\ resolver.error = None
    /\ resolver.info # None
ReturnedInfo == Val(resolver.info)

\* C6: a direct-mode request answered from an info dict whose is_live is true
\* is answered 422 and carries no direct url, whatever the formats and the
\* top-level url of the dict are.
C6_LiveIsNeverDirect ==
    (AnsweredFromInfo /\ ReturnedInfo.is_live = Some(TRUE))
    => req.code = 422 /\ "direct_url" \notin DOMAIN req.body

C6_Witness ==
    /\ AnsweredFromInfo /\ req.code = 422
    /\ ReturnedInfo.is_live = Some(TRUE)
    /\ ReturnedInfo.formats # None
    /\ Len(Val(ReturnedInfo.formats)) = 2
    /\ ReturnedInfo.url = Some("top")

\* the triple of the claim: height, bitrate, filesize, a missing field as 0
Field0(o) == IF o = None THEN 0 ELSE Val(o)
Triple(f) == <<Field0(f.height), Field0(f.tbr), Field0(f.filesize)>>
LexLeq(a, b) ==
    \/ a[1] < b[1]
    \/ a[1] = b[1] /\ a[2] < b[2]
    \/ a[1] = b[1] /\ a[2] = b[2] /\ a[3] <= b[3]

\* C7: a direct-mode request answered with a url from a non-live info dict
\* whose candidate list is not empty returns the url of a candidate whose
\* triple is the lexicographic maximum over the whole candidate list.
C7_BestCandidate ==
    (/\ AnsweredFromInfo
     /\ ReturnedInfo.is_live # Some(TRUE)
     /\ Candidates(ReturnedInfo) # <<>>
     /\ req.code = 200)
    => \E i \in 1..Len(Candidates(ReturnedInfo)) :
          /\ Candidates(ReturnedInfo)[i].url = Some(req.body.direct_url)
          /\ \A j \in 1..Len(Candidates(ReturnedInfo)) :
                LexLeq(Triple(Candidates(ReturnedInfo)[j]),
                       Triple(Candidates(ReturnedInfo)[i]))

C7_Witness ==
    /\ AnsweredFromInfo /\ req.code = 200 /\ req.body.direct_url = "u2"
    /\ ReturnedInfo.requested_formats = None
    /\ ReturnedInfo.formats =
          Some(<<[height |-> Some(480), tbr |-> Some(500), filesize |-> Some(1000),
                  url |-> Some("u1")],
                 [height |-> Some(720), tbr |-> None, filesize |-> None,
                  url |-> Some("u2")]>>)

\* a step of a direct-mode request or of a resolver thread
DirectStep ==
    \/ req' # req /\ "expired" \in DOMAIN req'
    \/ resolver' # resolver
    \/ abandoned' # abandoned

\* C8: no step of a direct-mode request, and no step of a resolver thread,
\* adds a task, changes a task, starts a download thread or writes a file.
C8_DirectLeavesTasks ==
    [][DirectStep => UNCHANGED <<tasks, worker, disk>>]_vars

C8_Witness ==
    /\ DirectDone /\ req.code = 200
    /\ \E id \in TaskIds : tasks[id].status = "downloading"

----------------------------------------------------------------------------
(* Properties of the cleanup endpoint, checked under RetentionSpec         *)

\* a step of api_cleanup that changes anything
CleanupStep == req.pc = "done" /\ req' # req /\ req'.ep = "cleanup"

\* C11: a cleanup run that follows another one, with no file written and no
\* time passed between the two, removes no file, reports removed = 0, and
\* leaves the files the first run left.
C11_SecondCleanupRemovesNothing ==
    /\ [][(JustCleaned /\ CleanupStep) =>
             /\ req'.body.removed = 0
             /\ disk' = disk
             /\ req'.left = req.left]_vars
    /\ [](req.ep = "cleanup" /\ req.again => req.body.removed = 0)

\* the second of two runs has answered, the first had removed the file of a
\* completed task, and another file is still there
C11_Witness ==
    /\ req.ep = "cleanup" /\ req.again /\ req.left # {}
    /\ \E id \in TaskIds :
          tasks[id].status = "completed" /\ ~exists(Val(tasks[id].filepath))

\* the client holds a 200 response of the status endpoint
StatusAnswered == req.ep = "status" /\ req.pc = "done" /\ req.code = 200

\* the task of id is completed and its file is no longer there
Gone(id) ==
    tasks[id].status = "completed" /\ ~exists(Val(tasks[id].filepath))

\* the client sends a request to endpoint ep for the task of id
RequestStep(ep, id) ==
    /\ req.pc = "done" /\ req' # req
    /\ req'.ep = ep /\ req'.task_id = id

\* C19: cleanup changes no task: a step that removes files leaves every task
\* as it is; for a completed task whose file is gone the status endpoint
\* still reports completed, with the task's filename, and the file endpoint
\* answers 404 and serves nothing.
C19_CleanupKeepsTasks ==
    /\ [][(CleanupStep \/ (disk' # disk /\ disk' \subseteq disk)) =>
             tasks' = tasks /\ worker' = worker]_vars
    /\ [][\A id \in TaskIds :
            /\ Gone(id) /\ RequestStep("status", id) =>
                  req'.body.status = "completed"
            /\ Gone(id) /\ RequestStep("file", id) =>
                  req'.code = 404 /\ req'.body = [error |-> "file missing"]]_vars
    /\ [](StatusAnswered /\ req.body.status = "completed" =>
            /\ req.body.filename # None
            /\ req.body.filename = tasks[req.task_id].filename)

\* cleanup has removed the file of a completed task, and the file endpoint
\* has answered 404 for that task
C19_Witness ==
    /\ req.ep = "file" /\ req.pc = "done" /\ req.code = 404
    /\ req.task_id \in TaskIds
    /\ Gone(req.task_id)

----------------------------------------------------------------------------
(* Properties of the status endpoint beside a running thread, under Spec   *)

\* C12: every response of the status endpoint for a known task carries an
\* error field exactly when the status it reports is failed, also when the
\* task's thread changes the task while the response is being built.
C12_ErrorIffFailed ==
    StatusAnswered => (req.body.error # None <=> req.body.status = "failed")

\* a response that reports a task as downloading and carries the error
\* message: the thread failed between the reads of lines 144 and 149
C12_TornResponse ==
    /\ StatusAnswered
    /\ req.body.status = "downloading"
    /\ req.body.error = Some(StatusFailedMessage)

\* the text e is in one of the text fields of the task or response r
Mentions(r, e) == r.status = e \/ r.title = Some(e) \/ r.error = Some(e)

\* C13: when the collaborator raises, the task ends as failed with the one
\* fixed message as its error; the text of the exception is in no field of
\* any task and in no status response; a failed task is not run again.
C13_FailureIsGeneric ==
    /\ [](\A id \in TaskIds : \A e \in Exceptions :
            /\ tasks[id].status = "failed" =>
                   tasks[id].error = Some(FailedMessage) /\ worker[id].pc = "done"
            /\ tasks[id] # NoTask => ~Mentions(tasks[id], e))
    /\ [](StatusAnswered =>
            /\ req.body.error \in {None, Some(StatusFailedMessage)}
            /\ \A e \in Exceptions : ~Mentions(req.body, e))
    /\ [][\A id \in TaskIds :
            /\ worker[id].pc = "running" /\ worker'[id].pc = "done" =>
                   /\ tasks'[id].status = "failed"
                   /\ tasks'[id].error = Some(FailedMessage)
            /\ tasks[id].status = "failed" =>
                   tasks'[id] = tasks[id] /\ worker'[id] = worker[id]]_vars

\* the client has polled a task whose collaborator raised
C13_Witness ==
    /\ StatusAnswered
    /\ req.body.status = "failed"
    /\ req.body.error = Some(StatusFailedMessage)
    /\ tasks[req.task_id].error = Some(FailedMessage)
    /\ worker[req.task_id].pc = "done"

----------------------------------------------------------------------------
(* Properties of the validation of a submission, checked under DirectSpec  *)

\* the url of a body is absent, or names neither allowed domain
UrlInvalid(data) ==
    \/ data.url = None
    \/ \A i \in 1..Len(Val(data.url)) :
          Val(data.url)[i] \notin {"xiaohongshu.com", "xhslink.com"}

\* a step of api_start_download: the client was free and the request now
\* carries the body of a submission
SubmitStep == req.pc = "done" /\ req' # req /\ "data" \in DOMAIN req'

\* C14: a submission whose url is absent or names no allowed domain is
\* answered 400 and changes nothing else: no task, no download thread and no
\* resolver thread, with or without mode = direct.
C14_InvalidUrlChangesNothing ==
    [][(SubmitStep /\ UrlInvalid(req'.data)) =>
          /\ req'.pc = "done" /\ req'.code = 400
          /\ UNCHANGED <<tasks, worker, sawTotal, disk, resolver, abandoned>>]_vars

\* a direct-mode submission of a foreign url has been answered 400 while a
\* task of an earlier submission exists
C14_Witness ==
    /\ req.ep = "download" /\ req.pc = "done" /\ req.code = 400
    /\ req.data = [url |-> Some(OtherUrl), mode |-> Some("direct")]
    /\ resolver = NoThread
    /\ \E id \in TaskIds : tasks[id] # NoTask

----------------------------------------------------------------------------
(* Properties of the fields of a task, checked under Spec                  *)

\* C15: in every reachable state a task has its filename and its filepath
\* exactly when its status is completed, and its error exactly when its
\* status is failed.
C15_FieldsFollowStatus ==
    \A id \in TaskIds :
        tasks[id] # NoTask =>
            /\ tasks[id].filename # None <=> tasks[id].status = "completed"
            /\ tasks[id].filepath # None <=> tasks[id].status = "completed"
            /\ tasks[id].error # None <=> tasks[id].status = "failed"

\* one task is completed and another has failed after its file was written
C15_Witness ==
    \E a, b \in TaskIds :
        /\ tasks[a].status = "completed" /\ tasks[a].filepath # None
        /\ tasks[b].status = "failed" /\ tasks[b].error # None
        /\ \E f \in disk : f.owner = b

----------------------------------------------------------------------------
(* Properties of _update_progress, checked under ProgressSpec              *)

\* a step that changes the task of id while its thread stays where it is:
\* a progress hook
HookStep(id) == tasks'[id] # tasks[id] /\ worker'[id] = worker[id]

\* the downloading events of ProgressEvents with a known nonzero total
WithTotal == {d \in ProgressEvents : d.status = "downloading" /\ TotalOf(d) # 0}

\* C16: a progress event changes a task only if it is a downloading event
\* with a known nonzero total, and then only the task's progress; no event
\* puts a progress back to 0; an event for an id without a task creates no
\* task and changes nothing.
C16_OtherEventsChangeNothing ==
    [][\A id \in TaskIds :
        /\ HookStep(id) =>
              /\ tasks'[id] = [tasks[id] EXCEPT !.progress = tasks'[id].progress]
              /\ \E d \in WithTotal :
                    tasks'[id].progress = Pct(Or0(d.downloaded_bytes), TotalOf(d))
        /\ tasks[id] # NoTask /\ tasks[id].progress # 0 =>
              tasks'[id].progress # 0
        /\ tasks[id] = NoTask /\ tasks'[id] # NoTask =>
              worker'[id].pc = "spawned" /\ req'.pc = "return"]_vars

\* a task that an event with a total took to 57 and that is still there
\* while its thread has written the file: the other events have run on it
C16_Witness ==
    \E id \in TaskIds :
        /\ tasks[id].status = "downloading" /\ tasks[id].progress = 57
        /\ worker[id].pc = "written"
        /\ \E other \in TaskIds : tasks[other] = NoTask

\* floor(downloaded / total * 100) clamped to 0..100, in exact arithmetic
FloorPct(downloaded, total) ==
    Min2(100, Max2(0, (downloaded * 100) \div total))

\* C17: every task's progress is an integer from 0 to 100 whatever the byte
\* counts of the events, and a downloading event with a nonzero total stores
\* floor(downloaded_bytes / total * 100) clamped to 0..100.
C17_StoresFloorOfRatio ==
    /\ [](\A id \in TaskIds :
            tasks[id] # NoTask => tasks[id].progress \in 0..100)
    /\ [][\A id \in TaskIds :
            HookStep(id) =>
                \E d \in WithTotal :
                    tasks'[id].progress =
                        FloorPct(Or0(d.downloaded_bytes), TotalOf(d))]_vars

\* the event "29 of 50 bytes" has been applied: the task shows 57, and the
\* floor of 29 / 50 * 100 is 58
C17_StoredBelowFloor ==
    \E id \in TaskIds :
        /\ tasks[id] # NoTask /\ tasks[id].progress = 57
        /\ \A d \in WithTotal :
              FloorPct(Or0(d.downloaded_bytes), TotalOf(d)) # 57

----------------------------------------------------------------------------
(* Who changes a task, checked under FrameSpec                             *)

\* the step is one of the thread of id alone: no request moves, no file and
\* no resolver changes, and every other task and thread stays as it is
OwnThreadStep(id) ==
    /\ worker[id].pc \in {"spawned", "running", "written"}
    /\ UNCHANGED <<req, resolver, abandoned>>
    /\ \A f \in (disk' \ disk) \cup (disk \ disk') : f.owner = id
    /\ \A other \in TaskIds \ {id} :
          tasks'[other] = tasks[other] /\ worker'[other] = worker[other]

\* C18: a task is changed only by steps of the thread started for it; the
\* status endpoint, the file endpoint, cleanup, the threads of other tasks
\* and direct-mode requests change no field of it, and once it is completed
\* or failed no step changes it.
C18_OnlyOwnThreadWrites ==
    [][\A id \in TaskIds :
        /\ tasks[id] # NoTask /\ tasks'[id] # tasks[id] => OwnThreadStep(id)
        /\ tasks[id].status \in {"completed", "failed"} =>
              tasks'[id] = tasks[id]]_vars

\* a direct-mode request has been answered while one task is completed and
\* another is downloading with an event applied
C18_Witness ==
    /\ DirectDone
    /\ \E a, b \in TaskIds :
          /\ tasks[a].status = "completed"
          /\ tasks[b].status = "downloading" /\ tasks[b].progress = 25

----------------------------------------------------------------------------
(* Termination of the downloads, checked under FairProgressSpec            *)

\* C20: with threads scheduled fairly and collaborator calls that return or
\* raise, every task of an accepted submission reaches completed or failed,
\* with any number of other tasks beside it; none stays queued or
\* downloading for ever.
C20_EveryTaskEnds ==
    \A id \in TaskIds :
        (tasks[id] # NoTask) ~> (tasks[id].status \in {"completed", "failed"})

\* every task has been submitted and has ended, one of them completed and
\* one failed
C20_Witness ==
    /\ \A id \in TaskIds : tasks[id].status \in {"completed", "failed"}
    /\ \E a, b \in TaskIds :
          tasks[a].status = "completed" /\ tasks[b].status = "failed"

====
